---- MODULE Spec2Model ----
(***************************************************************************)
(* A model of rs-accountant: the payment engine of src/src/engine.rs (the   *)
(* five transaction handlers and the export) and the sharded pipeline of    *)
(* src/src/main.rs (dispatcher thread, one worker thread per lane, the      *)
(* joining main thread).                                                    *)
(*                                                                          *)
(* Decimal amounts are integers (a fixed number of minor units); Decimal    *)
(* overflow (beyond 96 bits) is outside the bounds of the model.            *)
(* Option<T> is a sequence: <<>> is None, <<v>> is Some(v).                 *)
(* A HashMap is a function whose DOMAIN is the key set.                     *)
(***************************************************************************)
EXTENDS Integers, Sequences, FiniteSets, TLC

(* ---------------------------------------------------------------------- *)
(* Bounds of the model                                                      *)
(* ---------------------------------------------------------------------- *)

\* Client ids are 1..MaxClient (ClientId = u16 in the source).
MaxClient == 2

\* Transaction ids are 1..MaxTx (TransactionId = u32 in the source).
MaxTx == 2

\* The amounts of the records are -1 (a negative amount) and 1..MaxAmount.
MaxAmount == 1

\* An operation is explored only while every balance stays within
\* -MaxBalance..MaxBalance.
MaxBalance == 2

\* The pipeline runs with 1..MaxLanes lanes (num_cpus::get() in the source).
MaxLanes == 2

\* The pipeline runs with a batch size of 1..MaxBatch (BATCH_SIZE in the source).
MaxBatch == 2

\* The input file holds at most MaxInput records.
MaxInput == 3

\* The records of the input file carry the tx ids 1..MaxStreamTx.
MaxStreamTx == 2

VARIABLES
    engine,          \* a PaymentEngine driven directly: [accounts, transactions]
    last,            \* the InputTransaction of the last handler call on engine
    num_senders,     \* number of lanes (num_cpus::get())
    batch_size,      \* records per full batch (BATCH_SIZE)
    input,           \* the records the csv reader has yielded so far
    batches,         \* dispatcher: lane -> the batch being filled
    chan,            \* lane -> queue of batches sent and not yet received
    sender_dropped,  \* lane -> the lane's Sender has been dropped
    d_pc,            \* dispatcher thread: "read", "flush", "drop", "done"
    d_i,             \* dispatcher thread: index of its flush / drop loop
    dispatch_result, \* "running", "Ok", "ReadErr", "ClientErr"
    engines,         \* lane -> the worker's PaymentEngine
    worker_pc,       \* lane -> "recv" or "done" (the thread has returned)
    delivered,       \* lane -> the records the worker has taken out of batches
    main_pc,         \* main thread: "start", "join", "join_dispatch",
                     \*   "export", "done", "failed", "panicked"
    main_i,          \* main thread: number of worker handles joined
    final_accounts,  \* main thread: the merged account map
    output           \* the rows written to stdout

vars == << engine, last, num_senders, batch_size, input, batches, chan,
           sender_dropped, d_pc, d_i, dispatch_result, engines, worker_pc,
           delivered, main_pc, main_i, final_accounts, output >>

engine_vars == << engine, last >>

pipeline_vars == << num_senders, batch_size, input, batches, chan,
                    sender_dropped, d_pc, d_i, dispatch_result, engines,
                    worker_pc, delivered, main_pc, main_i, final_accounts,
                    output >>

(* ---------------------------------------------------------------------- *)
(* Data model (engine.rs)                                                   *)
(* ---------------------------------------------------------------------- *)

ClientId == 1..MaxClient

TransactionId == 1..MaxTx

DisputeStatus == {"NotDisputed", "Disputed", "Resolved", "ChargedBack"}

TransactionType == {"deposit", "withdrawal", "dispute", "resolve", "chargeback"}

None == << >>

Some(v) == << v >>

\* An empty HashMap.
EmptyMap == [k \in {} |-> k]

\* HashMap::insert: the entry under k is created or replaced.
insert(m, k, v) == [x \in DOMAIN m \cup {k} |-> IF x = k THEN v ELSE m[x]]

\* Account::new
Account_new(id) == [id |-> id, available |-> 0, held |-> 0, locked |-> FALSE]

\* Account::total
total(account) == account.available + account.held

\* PaymentEngine::new
PaymentEngine_new == [accounts |-> EmptyMap, transactions |-> EmptyMap]

\* Decimal::is_sign_negative on the amounts of the model.
is_sign_negative(amount) == amount < 0

\* accounts.entry(client_id).or_insert_with(|| Account::new(client_id))
entry_or_insert(accounts, client_id) ==
    IF client_id \in DOMAIN accounts
    THEN accounts
    ELSE insert(accounts, client_id, Account_new(client_id))

StoredTransaction(client_id, amount) ==
    [client_id |-> client_id, amount |-> amount, dispute_status |-> "NotDisputed"]

(* ---------------------------------------------------------------------- *)
(* The five handlers (engine.rs), as functions from engine to engine        *)
(* ---------------------------------------------------------------------- *)

\* handle_deposit with the locked check left out.
handle_deposit_NoLockCheck(e, tx) ==
    IF tx.amount = None THEN e
    ELSE IF is_sign_negative(tx.amount[1]) THEN e
    ELSE LET accts == entry_or_insert(e.accounts, tx.client_id)
         IN  [accounts |-> [accts EXCEPT ![tx.client_id].available = @ + tx.amount[1]],
              transactions |-> insert(e.transactions, tx.tx_id,
                                      StoredTransaction(tx.client_id, tx.amount[1]))]

\* handle_deposit that keeps the transaction already stored under the tx id.
handle_deposit_KeepsStored(e, tx) ==
    IF tx.amount = None THEN e
    ELSE IF is_sign_negative(tx.amount[1]) THEN e
    ELSE LET accts == entry_or_insert(e.accounts, tx.client_id)
         IN  IF accts[tx.client_id].locked
             THEN [e EXCEPT !.accounts = accts]
             ELSE [accounts |-> [accts EXCEPT ![tx.client_id].available = @ + tx.amount[1]],
                   transactions |->
                       IF tx.tx_id \in DOMAIN e.transactions THEN e.transactions
                       ELSE insert(e.transactions, tx.tx_id,
                                   StoredTransaction(tx.client_id, tx.amount[1]))]

handle_deposit(e, tx) ==
    IF tx.amount = None THEN e
    ELSE IF is_sign_negative(tx.amount[1]) THEN e
    ELSE LET accts == entry_or_insert(e.accounts, tx.client_id)
         IN  IF accts[tx.client_id].locked
             THEN [e EXCEPT !.accounts = accts]
             ELSE [accounts |-> [accts EXCEPT ![tx.client_id].available = @ + tx.amount[1]],
                   transactions |-> insert(e.transactions, tx.tx_id,
                                           StoredTransaction(tx.client_id, tx.amount[1]))]

\* handle_withdrawal that records the transaction before it tests the funds.
handle_withdrawal_StoresRejected(e, tx) ==
    IF tx.amount = None THEN e
    ELSE IF is_sign_negative(tx.amount[1]) THEN e
    ELSE LET accts == entry_or_insert(e.accounts, tx.client_id)
             stored == insert(e.transactions, tx.tx_id,
                              StoredTransaction(tx.client_id, tx.amount[1]))
         IN  IF accts[tx.client_id].locked \/ accts[tx.client_id].available < tx.amount[1]
             THEN [accounts |-> accts, transactions |-> stored]
             ELSE [accounts |-> [accts EXCEPT ![tx.client_id].available = @ - tx.amount[1]],
                   transactions |-> stored]

\* The funds test excludes equality: available <= amount is rejected.
handle_withdrawal_StrictFunds(e, tx) ==
    IF tx.amount = None THEN e
    ELSE IF is_sign_negative(tx.amount[1]) THEN e
    ELSE LET accts == entry_or_insert(e.accounts, tx.client_id)
         IN  IF accts[tx.client_id].locked \/ accts[tx.client_id].available <= tx.amount[1]
             THEN [e EXCEPT !.accounts = accts]
             ELSE [accounts |-> [accts EXCEPT ![tx.client_id].available = @ - tx.amount[1]],
                   transactions |-> insert(e.transactions, tx.tx_id,
                                           StoredTransaction(tx.client_id, tx.amount[1]))]

handle_withdrawal(e, tx) ==
    IF tx.amount = None THEN e
    ELSE IF is_sign_negative(tx.amount[1]) THEN e
    ELSE LET accts == entry_or_insert(e.accounts, tx.client_id)
         IN  IF accts[tx.client_id].locked \/ accts[tx.client_id].available < tx.amount[1]
             THEN [e EXCEPT !.accounts = accts]
             ELSE [accounts |-> [accts EXCEPT ![tx.client_id].available = @ - tx.amount[1]],
                   transactions |-> insert(e.transactions, tx.tx_id,
                                           StoredTransaction(tx.client_id, tx.amount[1]))]

\* handle_dispute that takes the account of the stored transaction's client
\* without comparing it with the record's client.
handle_dispute_OwnerAccount(e, tx) ==
    IF tx.tx_id \notin DOMAIN e.transactions THEN e
    ELSE LET disputed_tx == e.transactions[tx.tx_id]
             owner == disputed_tx.client_id
         IN  IF owner \notin DOMAIN e.accounts THEN e
             ELSE IF \/ e.accounts[owner].locked
                     \/ disputed_tx.dispute_status = "Disputed"
                     \/ disputed_tx.dispute_status = "ChargedBack"
                  THEN e
             ELSE [accounts |-> [e.accounts EXCEPT
                                    ![owner].available = @ - disputed_tx.amount,
                                    ![owner].held = @ + disputed_tx.amount],
                   transactions |-> [e.transactions EXCEPT
                                    ![tx.tx_id].dispute_status = "Disputed"]]

\* handle_dispute that rejects a dispute the available funds do not cover.
handle_dispute_RequiresFunds(e, tx) ==
    IF tx.tx_id \notin DOMAIN e.transactions THEN e
    ELSE LET disputed_tx == e.transactions[tx.tx_id]
         IN  IF disputed_tx.client_id # tx.client_id THEN e
             ELSE IF tx.client_id \notin DOMAIN e.accounts THEN e
             ELSE IF \/ e.accounts[tx.client_id].locked
                     \/ disputed_tx.dispute_status = "Disputed"
                     \/ disputed_tx.dispute_status = "ChargedBack"
                     \/ e.accounts[tx.client_id].available < disputed_tx.amount
                  THEN e
             ELSE [accounts |-> [e.accounts EXCEPT
                                    ![tx.client_id].available = @ - disputed_tx.amount,
                                    ![tx.client_id].held = @ + disputed_tx.amount],
                   transactions |-> [e.transactions EXCEPT
                                    ![tx.tx_id].dispute_status = "Disputed"]]

\* handle_dispute with its second guard cut down to the Disputed test.
handle_dispute_OnlyDisputedCheck(e, tx) ==
    IF tx.tx_id \notin DOMAIN e.transactions THEN e
    ELSE LET disputed_tx == e.transactions[tx.tx_id]
         IN  IF disputed_tx.client_id # tx.client_id THEN e
             ELSE IF tx.client_id \notin DOMAIN e.accounts THEN e
             ELSE IF disputed_tx.dispute_status = "Disputed" THEN e
             ELSE [accounts |-> [e.accounts EXCEPT
                                    ![tx.client_id].available = @ - disputed_tx.amount,
                                    ![tx.client_id].held = @ + disputed_tx.amount],
                   transactions |-> [e.transactions EXCEPT
                                    ![tx.tx_id].dispute_status = "Disputed"]]

handle_dispute(e, tx) ==
    IF tx.tx_id \notin DOMAIN e.transactions THEN e
    ELSE LET disputed_tx == e.transactions[tx.tx_id]
         IN  IF disputed_tx.client_id # tx.client_id THEN e
             ELSE IF tx.client_id \notin DOMAIN e.accounts THEN e
             ELSE IF \/ e.accounts[tx.client_id].locked
                     \/ disputed_tx.dispute_status = "Disputed"
                     \/ disputed_tx.dispute_status = "ChargedBack"
                  THEN e
             ELSE [accounts |-> [e.accounts EXCEPT
                                    ![tx.client_id].available = @ - disputed_tx.amount,
                                    ![tx.client_id].held = @ + disputed_tx.amount],
                   transactions |-> [e.transactions EXCEPT
                                    ![tx.tx_id].dispute_status = "Disputed"]]

\* handle_resolve that releases the funds to available and keeps them held.
handle_resolve_KeepsHeld(e, tx) ==
    IF tx.tx_id \notin DOMAIN e.transactions THEN e
    ELSE LET disputed_tx == e.transactions[tx.tx_id]
         IN  IF \/ disputed_tx.client_id # tx.client_id
                \/ disputed_tx.dispute_status # "Disputed"
             THEN e
             ELSE IF tx.client_id \notin DOMAIN e.accounts THEN e
             ELSE IF e.accounts[tx.client_id].locked THEN e
             ELSE [accounts |-> [e.accounts EXCEPT
                                    ![tx.client_id].available = @ + disputed_tx.amount],
                   transactions |-> [e.transactions EXCEPT
                                    ![tx.tx_id].dispute_status = "Resolved"]]

\* handle_resolve with the test of the dispute status left out.
handle_resolve_NoStatusCheck(e, tx) ==
    IF tx.tx_id \notin DOMAIN e.transactions THEN e
    ELSE LET disputed_tx == e.transactions[tx.tx_id]
         IN  IF disputed_tx.client_id # tx.client_id THEN e
             ELSE IF tx.client_id \notin DOMAIN e.accounts THEN e
             ELSE IF e.accounts[tx.client_id].locked THEN e
             ELSE [accounts |-> [e.accounts EXCEPT
                                    ![tx.client_id].available = @ + disputed_tx.amount,
                                    ![tx.client_id].held = @ - disputed_tx.amount],
                   transactions |-> [e.transactions EXCEPT
                                    ![tx.tx_id].dispute_status = "Resolved"]]

handle_resolve(e, tx) ==
    IF tx.tx_id \notin DOMAIN e.transactions THEN e
    ELSE LET disputed_tx == e.transactions[tx.tx_id]
         IN  IF \/ disputed_tx.client_id # tx.client_id
                \/ disputed_tx.dispute_status # "Disputed"
             THEN e
             ELSE IF tx.client_id \notin DOMAIN e.accounts THEN e
             ELSE IF e.accounts[tx.client_id].locked THEN e
             ELSE [accounts |-> [e.accounts EXCEPT
                                    ![tx.client_id].available = @ + disputed_tx.amount,
                                    ![tx.client_id].held = @ - disputed_tx.amount],
                   transactions |-> [e.transactions EXCEPT
                                    ![tx.tx_id].dispute_status = "Resolved"]]

\* handle_chargeback that does not lock the account.
handle_chargeback_NoLock(e, tx) ==
    IF tx.tx_id \notin DOMAIN e.transactions THEN e
    ELSE LET disputed_tx == e.transactions[tx.tx_id]
         IN  IF \/ disputed_tx.client_id # tx.client_id
                \/ disputed_tx.dispute_status # "Disputed"
             THEN e
             ELSE IF tx.client_id \notin DOMAIN e.accounts THEN e
             ELSE IF e.accounts[tx.client_id].locked THEN e
             ELSE [accounts |-> [e.accounts EXCEPT
                                    ![tx.client_id].held = @ - disputed_tx.amount],
                   transactions |-> [e.transactions EXCEPT
                                    ![tx.tx_id].dispute_status = "ChargedBack"]]

\* handle_chargeback without the comparison of the stored client with the
\* record's: the record's client is charged back.
handle_chargeback_NoClientCheck(e, tx) ==
    IF tx.tx_id \notin DOMAIN e.transactions THEN e
    ELSE LET disputed_tx == e.transactions[tx.tx_id]
         IN  IF disputed_tx.dispute_status # "Disputed" THEN e
             ELSE IF tx.client_id \notin DOMAIN e.accounts THEN e
             ELSE IF e.accounts[tx.client_id].locked THEN e
             ELSE [accounts |-> [e.accounts EXCEPT
                                    ![tx.client_id].held = @ - disputed_tx.amount,
                                    ![tx.client_id].locked = TRUE],
                   transactions |-> [e.transactions EXCEPT
                                    ![tx.tx_id].dispute_status = "ChargedBack"]]

handle_chargeback(e, tx) ==
    IF tx.tx_id \notin DOMAIN e.transactions THEN e
    ELSE LET disputed_tx == e.transactions[tx.tx_id]
         IN  IF \/ disputed_tx.client_id # tx.client_id
                \/ disputed_tx.dispute_status # "Disputed"
             THEN e
             ELSE IF tx.client_id \notin DOMAIN e.accounts THEN e
             ELSE IF e.accounts[tx.client_id].locked THEN e
             ELSE [accounts |-> [e.accounts EXCEPT
                                    ![tx.client_id].held = @ - disputed_tx.amount,
                                    ![tx.client_id].locked = TRUE],
                   transactions |-> [e.transactions EXCEPT
                                    ![tx.tx_id].dispute_status = "ChargedBack"]]

\* The match on tx.transaction_type (engine.rs process_transactions, main.rs worker).
apply_transaction(e, tx) ==
    CASE tx.transaction_type = "deposit"    -> handle_deposit(e, tx)
      [] tx.transaction_type = "withdrawal" -> handle_withdrawal(e, tx)
      [] tx.transaction_type = "dispute"    -> handle_dispute(e, tx)
      [] tx.transaction_type = "resolve"    -> handle_resolve(e, tx)
      [] tx.transaction_type = "chargeback" -> handle_chargeback(e, tx)

(* ---------------------------------------------------------------------- *)
(* Spec: one PaymentEngine, its handlers called in any order                *)
(* ---------------------------------------------------------------------- *)

\* Option<Decimal>: absent, negative, or a positive value up to MaxAmount.
Amounts == {None} \cup {Some(a) : a \in {-1} \cup 1..MaxAmount}

\* The records of one type: a deposit or withdrawal carries any amount, a
\* dispute, resolve or chargeback none (the handlers never read it).
InputTransaction(type) ==
    [transaction_type : {type}, client_id : ClientId, tx_id : TransactionId,
     amount : IF type \in {"deposit", "withdrawal"} THEN Amounts ELSE {None}]

Bounded(e) ==
    \A c \in DOMAIN e.accounts :
        /\ e.accounts[c].available \in (-MaxBalance)..MaxBalance
        /\ e.accounts[c].held \in (-MaxBalance)..MaxBalance

NoCall == [transaction_type |-> "none", client_id |-> 0, tx_id |-> 0, amount |-> None]

PipelineIdle ==
    /\ num_senders = 1
    /\ batch_size = 1
    /\ input = << >>
    /\ batches = [i \in 0..0 |-> << >>]
    /\ chan = [i \in 0..0 |-> << >>]
    /\ sender_dropped = [i \in 0..0 |-> FALSE]
    /\ d_pc = "read"
    /\ d_i = 0
    /\ dispatch_result = "running"
    /\ engines = [i \in 0..0 |-> PaymentEngine_new]
    /\ worker_pc = [i \in 0..0 |-> "recv"]
    /\ delivered = [i \in 0..0 |-> << >>]
    /\ main_pc = "start"
    /\ main_i = 0
    /\ final_accounts = EmptyMap
    /\ output = << >>

Init ==
    /\ engine = PaymentEngine_new
    /\ last = NoCall
    /\ PipelineIdle

Call(tx) ==
    /\ engine' = apply_transaction(engine, tx)
    /\ Bounded(engine')
    /\ last' = tx
    /\ UNCHANGED pipeline_vars

Deposit == \E tx \in InputTransaction("deposit") : Call(tx)

Withdrawal == \E tx \in InputTransaction("withdrawal") : Call(tx)

Dispute == \E tx \in InputTransaction("dispute") : Call(tx)

Resolve == \E tx \in InputTransaction("resolve") : Call(tx)

Chargeback == \E tx \in InputTransaction("chargeback") : Call(tx)

Next == Deposit \/ Withdrawal \/ Dispute \/ Resolve \/ Chargeback

Spec == Init /\ [][Next]_vars

\* The calls of one engine in which no deposit or withdrawal carries a tx id
\* that is stored.  Every run whose deposits and withdrawals all carry
\* distinct tx ids is such a run: a tx id is stored only by a deposit or
\* withdrawal that carried it.
FreshCall(tx) ==
    /\ tx.tx_id \notin DOMAIN engine.transactions
    /\ Call(tx)

FreshDeposit == \E tx \in InputTransaction("deposit") : FreshCall(tx)

FreshWithdrawal == \E tx \in InputTransaction("withdrawal") : FreshCall(tx)

DistinctNext == FreshDeposit \/ FreshWithdrawal \/ Dispute \/ Resolve \/ Chargeback

DistinctSpec == Init /\ [][DistinctNext]_vars

(* ---------------------------------------------------------------------- *)
(* Claims about one engine (Spec)                                           *)
(* ---------------------------------------------------------------------- *)

Locked(c) == c \in DOMAIN engine.accounts /\ engine.accounts[c].locked

status(t) == engine.transactions[t].dispute_status

\* C1: once an account is locked, no call of any of the five handlers, for
\* any client id and any tx id, changes its available, held or locked.
C1_LockedAccountFrozen ==
    [][\A c \in ClientId :
          Locked(c) => /\ c \in DOMAIN engine'.accounts
                       /\ engine'.accounts[c] = engine.accounts[c]]_vars

\* A deposit of a positive amount has just been called on a locked account.
C1_Witness ==
    /\ last.transaction_type = "deposit"
    /\ last.amount = Some(1)
    /\ Locked(last.client_id)

\* The four edges of the dispute state machine.
Edges ==
    { << "NotDisputed", "Disputed" >>, << "Disputed", "Resolved" >>,
      << "Disputed", "ChargedBack" >>, << "Resolved", "Disputed" >> }

\* C2 as stated: every change of a stored dispute_status is one of the four
\* edges (so no step leaves ChargedBack).
C2_OnlyFourEdges ==
    [][\A t \in DOMAIN engine.transactions \cap DOMAIN engine'.transactions :
          status(t)' # status(t) => << status(t), status(t)' >> \in Edges]_vars

\* The handler that makes each edge.
EdgeBy(type, from, to) ==
    \/ type = "dispute" /\ from \in {"NotDisputed", "Resolved"} /\ to = "Disputed"
    \/ type = "resolve" /\ from = "Disputed" /\ to = "Resolved"
    \/ type = "chargeback" /\ from = "Disputed" /\ to = "ChargedBack"

\* C2 amended: every change of a stored dispute_status is one of the four
\* edges, made by the dispute, resolve or chargeback of that tx id, or is a
\* reset to NotDisputed by a deposit or withdrawal that reuses the tx id.
C2_EdgesOrReset ==
    [][\A t \in DOMAIN engine.transactions \cap DOMAIN engine'.transactions :
          status(t)' # status(t) =>
              /\ last'.tx_id = t
              /\ \/ EdgeBy(last'.transaction_type, status(t), status(t)')
                 \/ /\ last'.transaction_type \in {"deposit", "withdrawal"}
                    /\ status(t)' = "NotDisputed"]_vars

\* A deposit or withdrawal has just replaced a stored transaction that was
\* under dispute: its funds are still held and nothing is Disputed any more.
C2_Witness ==
    /\ last.transaction_type \in {"deposit", "withdrawal"}
    /\ last.tx_id \in DOMAIN engine.transactions
    /\ status(last.tx_id) = "NotDisputed"
    /\ \E c \in DOMAIN engine.accounts : engine.accounts[c].held > 0
    /\ \A t \in DOMAIN engine.transactions : status(t) # "Disputed"

\* C3: a dispute, resolve or chargeback that references a stored transaction
\* whose status is ChargedBack changes nothing: the status stays ChargedBack
\* and every account keeps its available, held and locked.
C3_ChargedBackTerminal ==
    [][( /\ last'.transaction_type \in {"dispute", "resolve", "chargeback"}
         /\ last'.tx_id \in DOMAIN engine.transactions
         /\ status(last'.tx_id) = "ChargedBack" )
       => engine' = engine]_vars

\* A dispute by the owning client has just been called on a transaction that
\* was already charged back.
C3_Witness ==
    /\ last.transaction_type = "dispute"
    /\ last.tx_id \in DOMAIN engine.transactions
    /\ status(last.tx_id) = "ChargedBack"
    /\ engine.transactions[last.tx_id].client_id = last.client_id

\* The funds a client has available in e: those of its account, none when
\* it has no account.
available_of(e, c) == IF c \in DOMAIN e.accounts THEN e.accounts[c].available ELSE 0

locked_in(e, c) == c \in DOMAIN e.accounts /\ e.accounts[c].locked

\* tx refers to a transaction stored in e for the client of tx.
refers_to_own(e, tx) ==
    /\ tx.tx_id \in DOMAIN e.transactions
    /\ e.transactions[tx.tx_id].client_id = tx.client_id

\* The preconditions of the five operations, as the claims state them.
Precondition(e, tx) ==
    CASE tx.transaction_type = "deposit" ->
             /\ tx.amount # None
             /\ tx.amount[1] >= 0
             /\ ~locked_in(e, tx.client_id)
      [] tx.transaction_type = "withdrawal" ->
             /\ tx.amount # None
             /\ tx.amount[1] >= 0
             /\ ~locked_in(e, tx.client_id)
             /\ available_of(e, tx.client_id) >= tx.amount[1]
      [] tx.transaction_type = "dispute" ->
             /\ refers_to_own(e, tx)
             /\ ~locked_in(e, tx.client_id)
             /\ e.transactions[tx.tx_id].dispute_status \in {"NotDisputed", "Resolved"}
      [] tx.transaction_type \in {"resolve", "chargeback"} ->
             /\ refers_to_own(e, tx)
             /\ ~locked_in(e, tx.client_id)
             /\ e.transactions[tx.tx_id].dispute_status = "Disputed"

\* C12 as stated: a call of any of the five handlers whose precondition fails
\* leaves the account map and the stored-transaction map as they were.
C12_RejectedLeavesNoTrace ==
    [][~Precondition(engine, last') => engine' = engine]_vars

held_of(e, c) == IF c \in DOMAIN e.accounts THEN e.accounts[c].held ELSE 0

\* No client's funds or lock differ between e and e2, and no stored
\* transaction does.
NotApplied(e, e2) ==
    /\ e2.transactions = e.transactions
    /\ \A c \in ClientId :
           /\ available_of(e2, c) = available_of(e, c)
           /\ held_of(e2, c) = held_of(e, c)
           /\ locked_in(e2, c) = locked_in(e, c)

\* e2 is e but for the account of client c, whose available, held and locked
\* are given (the account is created when e has none), and for the stored
\* transaction t, which is stored.
Changed(e, e2, c, available, held, locked, t, stored) ==
    /\ DOMAIN e2.accounts = DOMAIN e.accounts \cup {c}
    /\ e2.accounts[c] =
           [id |-> c, available |-> available, held |-> held, locked |-> locked]
    /\ \A d \in DOMAIN e.accounts \ {c} : e2.accounts[d] = e.accounts[d]
    /\ DOMAIN e2.transactions = DOMAIN e.transactions \cup {t}
    /\ e2.transactions[t] = stored
    /\ \A u \in DOMAIN e.transactions \ {t} : e2.transactions[u] = e.transactions[u]

\* The withdrawal tx takes e to e2 as C13 states.
WithdrawalOutcome(e, tx, e2) ==
    IF Precondition(e, tx)
    THEN /\ Changed(e, e2, tx.client_id,
                    available_of(e, tx.client_id) - tx.amount[1],
                    held_of(e, tx.client_id), locked_in(e, tx.client_id), tx.tx_id,
                    [client_id |-> tx.client_id, amount |-> tx.amount[1],
                     dispute_status |-> "NotDisputed"])
         /\ e2.accounts[tx.client_id].available >= 0
    ELSE NotApplied(e, e2)

\* Calls with amount zero, the boundary of "non-negative".
ZeroAmountCalls(type) ==
    [transaction_type : {type}, client_id : ClientId, tx_id : TransactionId,
     amount : {Some(0)}]

\* C13: a withdrawal is applied if and only if its amount is present and
\* non-negative, the account is not locked and available >= amount; applied,
\* it takes amount from available, leaves held and locked, stores
\* {client_id, amount, NotDisputed} under the tx id and leaves available
\* non-negative; otherwise no funds, lock or stored transaction changes.  The
\* second conjunct states the same of a withdrawal of amount zero called in
\* any reachable state.
C13_WithdrawalRule ==
    /\ [][last'.transaction_type = "withdrawal" =>
              WithdrawalOutcome(engine, last', engine')]_vars
    /\ [](\A tx \in ZeroAmountCalls("withdrawal") :
              WithdrawalOutcome(engine, tx, handle_withdrawal(engine, tx)))

\* A withdrawal of all the available funds of an account was applied.
C13_Witness ==
    /\ last.transaction_type = "withdrawal"
    /\ last.amount = Some(1)
    /\ last.tx_id \in DOMAIN engine.transactions
    /\ engine.transactions[last.tx_id] =
           [client_id |-> last.client_id, amount |-> 1, dispute_status |-> "NotDisputed"]
    /\ engine.accounts[last.client_id].available = 0
    /\ engine.accounts[last.client_id].held = 0
    /\ Cardinality(DOMAIN engine.transactions) = 2

\* The deposit tx, its precondition holding, takes e to e2 as C14 states.
DepositOutcome(e, tx, e2) ==
    Precondition(e, tx) =>
        Changed(e, e2, tx.client_id,
                available_of(e, tx.client_id) + tx.amount[1],
                held_of(e, tx.client_id), locked_in(e, tx.client_id), tx.tx_id,
                [client_id |-> tx.client_id, amount |-> tx.amount[1],
                 dispute_status |-> "NotDisputed"])

\* C14: a deposit with a present non-negative amount to an account that is
\* not locked or does not exist yet adds amount to available, leaves held and
\* locked, and stores {client_id, amount, NotDisputed} under the tx id,
\* replacing whatever was stored under it; no other account and no other
\* stored transaction changes.  The second conjunct states the same of a
\* deposit of amount zero called in any reachable state.
C14_DepositRule ==
    /\ [][last'.transaction_type = "deposit" =>
              DepositOutcome(engine, last', engine')]_vars
    /\ [](\A tx \in ZeroAmountCalls("deposit") :
              DepositOutcome(engine, tx, handle_deposit(engine, tx)))

\* A deposit of one client has replaced the stored transaction of another
\* client that was under dispute: the other client still holds the disputed
\* funds, and no stored transaction of it is Disputed.
C14_Witness ==
    /\ last.transaction_type = "deposit"
    /\ last.amount = Some(1)
    /\ last.tx_id \in DOMAIN engine.transactions
    /\ engine.transactions[last.tx_id] =
           [client_id |-> last.client_id, amount |-> 1, dispute_status |-> "NotDisputed"]
    /\ \E c \in DOMAIN engine.accounts \ {last.client_id} :
           /\ engine.accounts[c].held = 1
           /\ \A t \in DOMAIN engine.transactions :
                  engine.transactions[t].client_id # c

\* The transaction stored in e under the tx id of tx, with the given status.
restatus(e, tx, new_status) ==
    [e.transactions[tx.tx_id] EXCEPT !.dispute_status = new_status]

amount_of(e, tx) == e.transactions[tx.tx_id].amount

\* The dispute tx takes e to e2 as C15 states.
DisputeOutcome(e, tx, e2) ==
    IF Precondition(e, tx)
    THEN /\ Changed(e, e2, tx.client_id,
                    available_of(e, tx.client_id) - amount_of(e, tx),
                    held_of(e, tx.client_id) + amount_of(e, tx), FALSE,
                    tx.tx_id, restatus(e, tx, "Disputed"))
         /\ total(e2.accounts[tx.client_id]) = total(e.accounts[tx.client_id])
    ELSE e2 = e

\* C15: a dispute is applied if and only if the tx is stored, its stored
\* client is the record's client, the account is not locked and the status is
\* NotDisputed or Resolved; applied, it moves the stored amount from available
\* to held (total unchanged, available possibly negative) and sets the status
\* to Disputed; otherwise the engine is unchanged.
C15_DisputeRule ==
    [][last'.transaction_type = "dispute" => DisputeOutcome(engine, last', engine')]_vars

\* A dispute was applied to an account whose available funds were less than
\* the disputed amount, and to a transaction that had been Resolved before
\* (the other stored transaction was withdrawn after the disputed deposit).
C15_Witness ==
    /\ last.transaction_type = "dispute"
    /\ last.tx_id \in DOMAIN engine.transactions
    /\ engine.transactions[last.tx_id].client_id = last.client_id
    /\ engine.transactions[last.tx_id].dispute_status = "Disputed"
    /\ engine.accounts[last.client_id].available < 0
    /\ engine.accounts[last.client_id].held = 1

\* The resolve tx takes e to e2 as C16 states.
ResolveOutcome(e, tx, e2) ==
    IF Precondition(e, tx)
    THEN Changed(e, e2, tx.client_id,
                 available_of(e, tx.client_id) + amount_of(e, tx),
                 held_of(e, tx.client_id) - amount_of(e, tx), FALSE,
                 tx.tx_id, restatus(e, tx, "Resolved"))
    ELSE e2 = e

\* The record of the given type about the transaction of tx, by its client.
same_tx(tx, type) == [tx EXCEPT !.transaction_type = type]

\* C16: a resolve is applied if and only if the tx is stored, the client
\* matches, the status is Disputed and the account is not locked; applied, it
\* moves the stored amount from held to available and sets the status to
\* Resolved; otherwise the engine is unchanged.  And in every reachable state
\* an applied dispute followed at once by the resolve of the same tx gives
\* back the account map as it was, with the tx Resolved.
C16_ResolveRule ==
    /\ [][last'.transaction_type = "resolve" =>
              ResolveOutcome(engine, last', engine')]_vars
    /\ [](\A tx \in InputTransaction("dispute") :
              Precondition(engine, tx) =>
                  LET e2 == handle_resolve(handle_dispute(engine, tx), same_tx(tx, "resolve"))
                  IN  /\ e2.accounts = engine.accounts
                      /\ e2.transactions =
                             [engine.transactions EXCEPT ![tx.tx_id] =
                                 restatus(engine, tx, "Resolved")])

\* A resolve was applied: the transaction is Resolved and its client's
\* account, which holds another disputed amount, is not locked.
C16_Witness ==
    /\ last.transaction_type = "resolve"
    /\ last.tx_id \in DOMAIN engine.transactions
    /\ engine.transactions[last.tx_id].client_id = last.client_id
    /\ engine.transactions[last.tx_id].dispute_status = "Resolved"
    /\ engine.accounts[last.client_id].held = 1
    /\ engine.accounts[last.client_id].available = 1
    /\ ~engine.accounts[last.client_id].locked

\* The chargeback tx takes e to e2 as C17 states.
ChargebackOutcome(e, tx, e2) ==
    IF Precondition(e, tx)
    THEN /\ Changed(e, e2, tx.client_id,
                    available_of(e, tx.client_id),
                    held_of(e, tx.client_id) - amount_of(e, tx), TRUE,
                    tx.tx_id, restatus(e, tx, "ChargedBack"))
         /\ total(e2.accounts[tx.client_id]) =
                total(e.accounts[tx.client_id]) - amount_of(e, tx)
    ELSE e2 = e

\* C17: a chargeback is applied under the preconditions of a resolve (tx
\* stored, client matches, status Disputed, account not locked); applied, it
\* takes the stored amount from held (so from total), leaves available, locks
\* the account and sets the status to ChargedBack; otherwise the engine is
\* unchanged.
C17_ChargebackRule ==
    [][last'.transaction_type = "chargeback" =>
          ChargebackOutcome(engine, last', engine')]_vars

\* A chargeback was applied to an account that keeps available funds.
C17_Witness ==
    /\ last.transaction_type = "chargeback"
    /\ last.tx_id \in DOMAIN engine.transactions
    /\ engine.transactions[last.tx_id].client_id = last.client_id
    /\ engine.transactions[last.tx_id].dispute_status = "ChargedBack"
    /\ engine.accounts[last.client_id].locked
    /\ engine.accounts[last.client_id].available = 1
    /\ engine.accounts[last.client_id].held = 0

\* C18: a dispute, resolve or chargeback whose client is not the client
\* stored with the tx it names changes neither the owner's account, nor the
\* requester's account, nor the stored transaction (nor anything else).
C18_MismatchedClientNoOp ==
    [][(/\ last'.transaction_type \in {"dispute", "resolve", "chargeback"}
        /\ last'.tx_id \in DOMAIN engine.transactions
        /\ engine.transactions[last'.tx_id].client_id # last'.client_id)
       => engine' = engine]_vars

\* Another client has asked for the chargeback of a Disputed transaction;
\* both accounts exist and neither is locked, so the client test alone
\* rejected the call.
C18_Witness ==
    /\ last.transaction_type = "chargeback"
    /\ last.tx_id \in DOMAIN engine.transactions
    /\ engine.transactions[last.tx_id].client_id # last.client_id
    /\ engine.transactions[last.tx_id].dispute_status = "Disputed"
    /\ last.client_id \in DOMAIN engine.accounts
    /\ \A c \in DOMAIN engine.accounts : ~engine.accounts[c].locked

\* C21: a call never removes a stored transaction; a tx id becomes stored
\* only by a deposit or withdrawal of that tx id whose precondition holds (a
\* rejected deposit or withdrawal and every dispute, resolve and chargeback
\* add none); and a dispute of a tx id that is not stored, such as that of a
\* rejected withdrawal, leaves the engine unchanged.
C21_StoredOnlyByApplied ==
    [][/\ DOMAIN engine.transactions \subseteq DOMAIN engine'.transactions
       /\ \A t \in DOMAIN engine'.transactions \ DOMAIN engine.transactions :
              /\ last'.transaction_type \in {"deposit", "withdrawal"}
              /\ last'.tx_id = t
              /\ Precondition(engine, last')
       /\ (/\ last'.transaction_type = "dispute"
           /\ last'.tx_id \notin DOMAIN engine.transactions)
          => engine' = engine]_vars

\* A client whose only call so far was a rejected withdrawal (it has an
\* account and no funds, and nothing is stored under the tx id) has disputed
\* that tx id, while another transaction is stored.
C21_Witness ==
    /\ last.transaction_type = "dispute"
    /\ last.tx_id \notin DOMAIN engine.transactions
    /\ last.client_id \in DOMAIN engine.accounts
    /\ engine.accounts[last.client_id] = Account_new(last.client_id)
    /\ \A t \in DOMAIN engine.transactions :
           engine.transactions[t].client_id # last.client_id
    /\ engine.transactions # EmptyMap

\* C24: in an engine started empty, after any sequence of calls of the five
\* handlers, tx ids repeating or not, the held funds of every account are
\* not negative.
C24_HeldNonNegative ==
    \A c \in DOMAIN engine.accounts : engine.accounts[c].held >= 0

\* A tx id was deposited and disputed twice: its client holds twice the
\* amount of the one transaction that is stored, and the last call, a
\* resolve of that transaction by another client, was rejected.
C24_Witness ==
    /\ Cardinality(DOMAIN engine.transactions) = 1
    /\ \E c \in DOMAIN engine.accounts :
           /\ engine.accounts[c].held = 2
           /\ last.client_id # c
    /\ last.transaction_type = "resolve"
    /\ last.tx_id \in DOMAIN engine.transactions

\* The stored transactions of client c that were charged back.
ChargedBackOf(c) ==
    { t \in DOMAIN engine.transactions :
          /\ engine.transactions[t].client_id = c
          /\ status(t) = "ChargedBack" }

\* C25: in every reachable state the client of a stored transaction with
\* status ChargedBack has a locked account; and a client has at most one
\* applied chargeback in a run: a chargeback is applied only to an account
\* that is not locked, it locks the account, a locked account stays locked,
\* and no client ever has two transactions with status ChargedBack.
C25_ChargebackLocksOnce ==
    /\ [](\A c \in ClientId :
              /\ ChargedBackOf(c) # {} => Locked(c)
              /\ Cardinality(ChargedBackOf(c)) <= 1)
    /\ [][/\ (last'.transaction_type = "chargeback" /\ engine' # engine) =>
                  /\ ~locked_in(engine, last'.client_id)
                  /\ locked_in(engine', last'.client_id)
           /\ \A c \in ClientId : locked_in(engine, c) => locked_in(engine', c)]_vars

\* A client with a charged-back transaction and another still under dispute
\* has asked for a second chargeback, which was rejected.
C25_Witness ==
    /\ last.transaction_type = "chargeback"
    /\ last.tx_id \in DOMAIN engine.transactions
    /\ engine.transactions[last.tx_id].client_id = last.client_id
    /\ status(last.tx_id) = "Disputed"
    /\ ChargedBackOf(last.client_id) # {}
    /\ engine.accounts[last.client_id].held = 1

\* C26: a call changes at most the account of the record's client_id and at
\* most the stored transaction of the record's tx_id: every other account
\* and every other stored transaction is there, unchanged, after the call,
\* and no other account or stored transaction appears.
C26_Frame ==
    [][/\ DOMAIN engine'.accounts \ {last'.client_id}
              = DOMAIN engine.accounts \ {last'.client_id}
       /\ \A c \in DOMAIN engine.accounts \ {last'.client_id} :
              engine'.accounts[c] = engine.accounts[c]
       /\ DOMAIN engine'.transactions \ {last'.tx_id}
              = DOMAIN engine.transactions \ {last'.tx_id}
       /\ \A t \in DOMAIN engine.transactions \ {last'.tx_id} :
              engine'.transactions[t] = engine.transactions[t]]_vars

\* A dispute was applied while another client has an account with funds
\* and a stored transaction of its own.
C26_Witness ==
    /\ last.transaction_type = "dispute"
    /\ last.tx_id \in DOMAIN engine.transactions
    /\ engine.transactions[last.tx_id].client_id = last.client_id
    /\ status(last.tx_id) = "Disputed"
    /\ engine.accounts[last.client_id].held = 1
    /\ \E t \in DOMAIN engine.transactions \ {last.tx_id} :
           /\ engine.transactions[t].client_id # last.client_id
           /\ engine.accounts[engine.transactions[t].client_id].available = 1

(* ---------------------------------------------------------------------- *)
(* Claims about one engine fed distinct tx ids (DistinctSpec)               *)
(* ---------------------------------------------------------------------- *)

\* The stored transactions of client c that are under dispute.
DisputedOf(c) ==
    { t \in DOMAIN engine.transactions :
          /\ engine.transactions[t].client_id = c
          /\ engine.transactions[t].dispute_status = "Disputed" }

RECURSIVE SumAmounts(_)
\* The sum of the stored amounts of the transactions ts.
SumAmounts(ts) ==
    IF ts = {} THEN 0
    ELSE LET t == CHOOSE u \in ts : TRUE
         IN  engine.transactions[t].amount + SumAmounts(ts \ {t})

\* C23: in an engine started empty whose deposits and withdrawals carry
\* distinct tx ids, the held funds of every account are the sum of the
\* stored amounts of its client's transactions with status Disputed.
C23_HeldIsDisputedSum ==
    \A c \in DOMAIN engine.accounts :
        engine.accounts[c].held = SumAmounts(DisputedOf(c))

\* One client has two transactions under dispute, the second disputed by
\* the last call.
C23_Witness ==
    /\ \E c \in DOMAIN engine.accounts :
           Cardinality(DisputedOf(c)) = 2 /\ engine.accounts[c].held = 2
    /\ last.transaction_type = "dispute"

(* ---------------------------------------------------------------------- *)
(* The pipeline (main.rs)                                                   *)
(* ---------------------------------------------------------------------- *)

\* Assumptions of the pipeline model:
\*  - the header row is type,client,tx,amount, so the client column the
\*    dispatcher reads by position is the one the workers read by name;
\*  - the handlers do not panic (no Decimal overflow), so a worker ends only
\*    when recv fails and a send on the unbounded channel never fails;
\*  - a thread's steps on its own data are taken as one step between two
\*    channel operations (a worker applies a received batch in one step).

Lanes == 0..(num_senders - 1)

\* The rows of the input file, as the csv reader yields them (StringRecord).
\* A field is given by what parsing it yields: the client and tx fields are
\* Some(n) or, when not a number, None; the amount field is Some(Some(a)),
\* Some(None) when empty, or None when not a number; the type token may be
\* none of the five ("bogus").  The header row is type,client,tx,amount.
WellFormedRows ==
    [type : {"deposit", "withdrawal"}, client : {Some(c) : c \in ClientId},
     tx : {Some(t) : t \in 1..MaxStreamTx}, amount : {Some(Some(1))}]
    \cup [type : {"dispute", "resolve", "chargeback"},
          client : {Some(c) : c \in ClientId},
          tx : {Some(t) : t \in 1..MaxStreamTx}, amount : {Some(None)}]

MalformedRows ==
    [type : {"bogus"}, client : {Some(c) : c \in ClientId},
     tx : {Some(1)}, amount : {Some(Some(1))}]
    \cup [type : {"deposit"}, client : {Some(c) : c \in ClientId},
          tx : {None}, amount : {Some(Some(1))}]
    \cup [type : {"deposit"}, client : {Some(c) : c \in ClientId},
          tx : {Some(1)}, amount : {None}]
    \cup [type : {"deposit"}, client : {None}, tx : {Some(1)}, amount : {Some(Some(1))}]

StringRecord == WellFormedRows \cup MalformedRows

\* record.deserialize::<InputTransaction>(Some(&headers)): Some(tx), or None
\* when a field does not parse as the type of its InputTransaction field.
deserialize(record) ==
    IF /\ record.type \in TransactionType
       /\ record.client # None
       /\ record.tx # None
       /\ record.amount # None
    THEN Some([transaction_type |-> record.type, client_id |-> record.client[1],
               tx_id |-> record.tx[1], amount |-> record.amount[1]])
    ELSE None

\* shard_index computed from the tx column instead of the client column.
shard_index_ByTx(record, num) == IF record.tx = None THEN 0 ELSE record.tx[1] % num

\* let shard_index = (client_id as usize) % num_senders
shard_index(record, num) == record.client[1] % num

\* batches[shard_index].len() >= BATCH_SIZE
batch_full(batch, size) == Len(batch) >= size

\* The partial batch of a lane is sent at the end of input unless it is empty;
\* here it is never sent.
flush_sends_Never(batch) == FALSE

\* if !batch.is_empty() { senders[i].send(batch)? }
flush_sends(batch) == batch # << >>

\* The body of the worker's loop over a batch: a record that does not
\* deserialize is skipped.
process_record(e, record) ==
    LET tx == deserialize(record)
    IN  IF tx = None THEN e ELSE apply_transaction(e, tx[1])

RECURSIVE process_batch_Reversed(_, _)
\* The records of a batch applied last to first.
process_batch_Reversed(e, batch) ==
    IF batch = << >> THEN e
    ELSE process_record(process_batch_Reversed(e, Tail(batch)), Head(batch))

RECURSIVE process_batch(_, _)
\* for record in batch { ... }
process_batch(e, batch) ==
    IF batch = << >> THEN e
    ELSE process_batch(process_record(e, Head(batch)), Tail(batch))

RECURSIVE process_transactions(_, _)
\* PaymentEngine::process_transactions: for tx in transactions { match ... }
process_transactions(e, transactions) ==
    IF transactions = << >> THEN e
    ELSE process_transactions(apply_transaction(e, Head(transactions)),
                              Tail(transactions))

\* HashMap::extend: every entry of other is inserted, replacing an equal key.
extend(m, other) ==
    [k \in DOMAIN m \cup DOMAIN other |-> IF k \in DOMAIN other THEN other[k] ELSE m[k]]

\* handle.join() returns once the worker thread has returned; here it
\* returns at once.
join_ready_NoWait(i) == TRUE

\* handle.join() returns once the worker thread has returned.
join_ready(i) == worker_pc[i] = "done"

\* impl From<&Account> for OutputAccount
OutputAccount(account) ==
    [id |-> account.id, available |-> account.available, held |-> account.held,
     total |-> total(account), locked |-> account.locked]

RECURSIVE insert_sorted(_, _)
\* One step of the stable sort: a is placed after every element whose id is
\* not greater.
insert_sorted(sorted, a) ==
    IF sorted = << >> THEN << a >>
    ELSE IF Head(sorted).id <= a.id
         THEN << Head(sorted) >> \o insert_sorted(Tail(sorted), a)
         ELSE << a >> \o sorted

\* The sort left out: the accounts stay in the order of HashMap::values.
sort_by_key_Unsorted(accounts) == accounts

RECURSIVE sort_by_key(_)
\* accounts.sort_by_key(|a| a.id)
sort_by_key(accounts) ==
    IF accounts = << >> THEN << >>
    ELSE insert_sorted(sort_by_key(SubSeq(accounts, 1, Len(accounts) - 1)),
                       accounts[Len(accounts)])

\* The orders in which HashMap::values may yield the accounts of a map.
values(m) ==
    { s \in [1..Cardinality(DOMAIN m) -> DOMAIN m] :
          \A i, j \in 1..Cardinality(DOMAIN m) : i # j => s[i] # s[j] }

\* export_accounts: the rows written for the accounts, visited in the order order.
export_accounts(m, order) ==
    LET sorted == sort_by_key([i \in 1..Len(order) |-> m[order[i]]])
    IN  [i \in 1..Len(sorted) |-> OutputAccount(sorted[i])]

Spawned == main_pc \notin {"start", "failed"}

PipeInit ==
    /\ engine = PaymentEngine_new
    /\ last = NoCall
    /\ num_senders \in 1..MaxLanes
    /\ batch_size \in 1..MaxBatch
    /\ input = << >>
    /\ batches = [i \in Lanes |-> << >>]
    /\ chan = [i \in Lanes |-> << >>]
    /\ sender_dropped = [i \in Lanes |-> FALSE]
    /\ d_pc = "read"
    /\ d_i = 0
    /\ dispatch_result = "running"
    /\ engines = [i \in Lanes |-> PaymentEngine_new]
    /\ worker_pc = [i \in Lanes |-> "recv"]
    /\ delivered = [i \in Lanes |-> << >>]
    /\ main_pc = "start"
    /\ main_i = 0
    /\ final_accounts = EmptyMap
    /\ output = << >>

\* main up to the spawning of the threads: the argument count is checked and
\* the headers are read; either may fail, and main returns the error.
Startup ==
    /\ main_pc = "start"
    /\ \E ok \in BOOLEAN : main_pc' = IF ok THEN "join" ELSE "failed"
    /\ UNCHANGED << engine_vars, num_senders, batch_size, input, batches, chan,
                    sender_dropped, d_pc, d_i, dispatch_result, engines,
                    worker_pc, delivered, main_i, final_accounts, output >>

\* dispatch_transactions: one turn of the loop over rdr.records() with a
\* readable record, which is one of rows.
DispatchReadFrom(rows) ==
    /\ Spawned
    /\ d_pc = "read"
    /\ Len(input) < MaxInput
    /\ \E record \in rows :
        /\ input' = Append(input, record)
        /\ IF record.client = None
           THEN /\ dispatch_result' = "ClientErr"
                /\ d_pc' = "drop"
                /\ UNCHANGED << batches, chan >>
           ELSE LET idx == shard_index(record, num_senders)
                    batch == Append(batches[idx], record)
                IN  /\ IF batch_full(batch, batch_size)
                       THEN /\ batches' = [batches EXCEPT ![idx] = << >>]
                            /\ chan' = [chan EXCEPT ![idx] = Append(@, batch)]
                       ELSE /\ batches' = [batches EXCEPT ![idx] = batch]
                            /\ UNCHANGED chan
                    /\ UNCHANGED << dispatch_result, d_pc >>
    /\ UNCHANGED << engine_vars, num_senders, batch_size, sender_dropped, d_i,
                    engines, worker_pc, delivered, main_pc, main_i,
                    final_accounts, output >>

\* The input file holds any rows.
DispatchRead == DispatchReadFrom(StringRecord)

\* dispatch_transactions: the reader yields an error (let record = result?).
DispatchReadErr ==
    /\ Spawned
    /\ d_pc = "read"
    /\ dispatch_result' = "ReadErr"
    /\ d_pc' = "drop"
    /\ UNCHANGED << engine_vars, num_senders, batch_size, input, batches, chan,
                    sender_dropped, d_i, engines, worker_pc, delivered, main_pc,
                    main_i, final_accounts, output >>

\* dispatch_transactions: the reader is exhausted.
DispatchEof ==
    /\ Spawned
    /\ d_pc = "read"
    /\ d_pc' = "flush"
    /\ UNCHANGED << engine_vars, num_senders, batch_size, input, batches, chan,
                    sender_dropped, d_i, dispatch_result, engines, worker_pc,
                    delivered, main_pc, main_i, final_accounts, output >>

\* dispatch_transactions: one turn of the loop that sends the partial
\* batches; after the last lane the function returns Ok(()).
DispatchFlush ==
    /\ d_pc = "flush"
    /\ chan' = IF flush_sends(batches[d_i])
               THEN [chan EXCEPT ![d_i] = Append(@, batches[d_i])]
               ELSE chan
    /\ batches' = [batches EXCEPT ![d_i] = << >>]
    /\ IF d_i + 1 = num_senders
       THEN /\ d_pc' = "drop"
            /\ d_i' = 0
            /\ dispatch_result' = "Ok"
       ELSE /\ d_i' = d_i + 1
            /\ UNCHANGED << d_pc, dispatch_result >>
    /\ UNCHANGED << engine_vars, num_senders, batch_size, input, sender_dropped,
                    engines, worker_pc, delivered, main_pc, main_i,
                    final_accounts, output >>

\* The dispatcher thread ends with its senders still alive (as if main had
\* kept a clone of them): no lane's channel is ever closed.
DispatchDrop_KeepsSenders ==
    /\ d_pc = "drop"
    /\ IF d_i + 1 = num_senders
       THEN d_pc' = "done" /\ d_i' = 0
       ELSE d_i' = d_i + 1 /\ UNCHANGED d_pc
    /\ UNCHANGED << engine_vars, num_senders, batch_size, input, batches, chan,
                    sender_dropped, dispatch_result, engines, worker_pc,
                    delivered, main_pc, main_i, final_accounts, output >>

\* The dispatcher thread drops its senders only in the loop that follows
\* Ok; after an error it ends with the senders alive.
DispatchDrop_OnlyAfterOk ==
    /\ d_pc = "drop"
    /\ sender_dropped' = IF dispatch_result = "Ok"
                         THEN [sender_dropped EXCEPT ![d_i] = TRUE]
                         ELSE sender_dropped
    /\ IF d_i + 1 = num_senders
       THEN d_pc' = "done" /\ d_i' = 0
       ELSE d_i' = d_i + 1 /\ UNCHANGED d_pc
    /\ UNCHANGED << engine_vars, num_senders, batch_size, input, batches, chan,
                    dispatch_result, engines, worker_pc, delivered, main_pc,
                    main_i, final_accounts, output >>

\* The dispatcher thread drops its senders, lane by lane: after Ok in the
\* loop of the closure, after an error while the unwrap's panic unwinds.
DispatchDrop ==
    /\ d_pc = "drop"
    /\ sender_dropped' = [sender_dropped EXCEPT ![d_i] = TRUE]
    /\ IF d_i + 1 = num_senders
       THEN d_pc' = "done" /\ d_i' = 0
       ELSE d_i' = d_i + 1 /\ UNCHANGED d_pc
    /\ UNCHANGED << engine_vars, num_senders, batch_size, input, batches, chan,
                    dispatch_result, engines, worker_pc, delivered, main_pc,
                    main_i, final_accounts, output >>

\* Worker i: receiver.recv() returns a batch, and the worker applies it.
WorkerRecv(i) ==
    /\ Spawned
    /\ worker_pc[i] = "recv"
    /\ chan[i] # << >>
    /\ chan' = [chan EXCEPT ![i] = Tail(@)]
    /\ engines' = [engines EXCEPT ![i] = process_batch(@, Head(chan[i]))]
    /\ delivered' = [delivered EXCEPT ![i] = @ \o Head(chan[i])]
    /\ UNCHANGED << engine_vars, num_senders, batch_size, input, batches,
                    sender_dropped, d_pc, d_i, dispatch_result, worker_pc,
                    main_pc, main_i, final_accounts, output >>

\* Worker i: receiver.recv() fails (the channel is empty and its sender is
\* dropped); the thread returns engine.accounts.
WorkerExit(i) ==
    /\ Spawned
    /\ worker_pc[i] = "recv"
    /\ chan[i] = << >>
    /\ sender_dropped[i]
    /\ worker_pc' = [worker_pc EXCEPT ![i] = "done"]
    /\ UNCHANGED << engine_vars, num_senders, batch_size, input, batches, chan,
                    sender_dropped, d_pc, d_i, dispatch_result, engines,
                    delivered, main_pc, main_i, final_accounts, output >>

\* main: one turn of the loop over handles: join the worker, extend
\* final_accounts with the map it returned.
MainJoinWorker ==
    /\ main_pc = "join"
    /\ join_ready(main_i)
    /\ final_accounts' = extend(final_accounts, engines[main_i].accounts)
    /\ main_i' = main_i + 1
    /\ main_pc' = IF main_i + 1 = num_senders THEN "join_dispatch" ELSE "join"
    /\ UNCHANGED << engine_vars, num_senders, batch_size, input, batches, chan,
                    sender_dropped, d_pc, d_i, dispatch_result, engines,
                    worker_pc, delivered, output >>

\* main joins the dispatcher and goes on to the export whatever the result.
MainJoinDispatch_IgnoresResult ==
    /\ main_pc = "join_dispatch"
    /\ d_pc = "done"
    /\ main_pc' = "export"
    /\ UNCHANGED << engine_vars, num_senders, batch_size, input, batches, chan,
                    sender_dropped, d_pc, d_i, dispatch_result, engines,
                    worker_pc, delivered, main_i, final_accounts, output >>

\* main: dispatch_handle.join().unwrap() panics when the dispatcher panicked.
MainJoinDispatch ==
    /\ main_pc = "join_dispatch"
    /\ d_pc = "done"
    /\ main_pc' = IF dispatch_result = "Ok" THEN "export" ELSE "panicked"
    /\ UNCHANGED << engine_vars, num_senders, batch_size, input, batches, chan,
                    sender_dropped, d_pc, d_i, dispatch_result, engines,
                    worker_pc, delivered, main_i, final_accounts, output >>

\* main: export_accounts(&final_accounts, io::stdout())
MainExport ==
    /\ main_pc = "export"
    /\ \E order \in values(final_accounts) :
           output' = export_accounts(final_accounts, order)
    /\ main_pc' = "done"
    /\ UNCHANGED << engine_vars, num_senders, batch_size, input, batches, chan,
                    sender_dropped, d_pc, d_i, dispatch_result, engines,
                    worker_pc, delivered, main_i, final_accounts >>

PipeNext ==
    \/ Startup
    \/ DispatchRead
    \/ DispatchReadErr
    \/ DispatchEof
    \/ DispatchFlush
    \/ DispatchDrop
    \/ \E i \in Lanes : WorkerRecv(i)
    \/ \E i \in Lanes : WorkerExit(i)
    \/ MainJoinWorker
    \/ MainJoinDispatch
    \/ MainExport

PipeSpec == PipeInit /\ [][PipeNext]_vars

\* The pipeline under fair scheduling: each thread that can take a step
\* eventually takes one (the dispatcher, every worker and main are threads of
\* the operating system).  The input file holds rows of FairRecords.
FairRecords ==
    { r \in StringRecord :
          /\ r.tx = Some(1)
          /\ r.amount # None
          /\ r.type \in {"deposit", "dispute", "bogus"} }

FairDispatchRead == DispatchReadFrom(FairRecords)

Dispatcher ==
    \/ FairDispatchRead
    \/ DispatchReadErr
    \/ DispatchEof
    \/ DispatchFlush
    \/ DispatchDrop

Worker(i) == WorkerRecv(i) \/ WorkerExit(i)

Main ==
    \/ Startup
    \/ MainJoinWorker
    \/ MainJoinDispatch
    \/ MainExport

FairNext ==
    \/ Dispatcher
    \/ \E i \in Lanes : Worker(i)
    \/ Main

Fairness ==
    /\ WF_vars(Dispatcher)
    /\ \A i \in 0..(MaxLanes - 1) : WF_vars(i \in Lanes /\ Worker(i))
    /\ WF_vars(Main)

FairSpec == PipeInit /\ [][FairNext]_vars /\ Fairness

(* ---------------------------------------------------------------------- *)
(* Claims about the pipeline (PipeSpec)                                     *)
(* ---------------------------------------------------------------------- *)

\* The records of the input a pipeline of n lanes routes to lane i.
LaneInput(in, n, i) ==
    SelectSeq(in, LAMBDA r : r.client # None /\ shard_index(r, n) = i)

\* The account map lane i of n holds after applying its records one by one.
LaneAccounts(in, n, i) == process_batch(PaymentEngine_new, LaneInput(in, n, i)).accounts

RECURSIVE MergedUpTo(_, _, _)
\* The maps of the lanes 0..k-1 of n, merged in lane order.
MergedUpTo(in, n, k) ==
    IF k = 0 THEN EmptyMap
    ELSE extend(MergedUpTo(in, n, k - 1), LaneAccounts(in, n, k - 1))

\* The final account set of a run with n lanes in which every lane applies
\* its records one by one, in input order.
MergedAccounts(in, n) == MergedUpTo(in, n, n)

AllTerminated ==
    /\ d_pc = "done"
    /\ \A i \in Lanes : worker_pc[i] = "done"

\* C4 as stated: the final aggregated account set of a run is the one a run
\* of the same input with any other lane count produces.
C4_LaneCountIndependent ==
    main_pc = "done" =>
        \A n \in 1..MaxLanes : final_accounts = MergedAccounts(input, n)

\* C5: for a fixed lane count the final aggregated account set does not
\* depend on the batch size: whatever the batch size of the run, an export
\* happens exactly when the dispatcher returned Ok, and the exported set is
\* the one the lanes produce when every record is applied on its own.
C5_BatchSizeIndependent ==
    /\ main_pc \in {"export", "done"} =>
           /\ dispatch_result = "Ok"
           /\ final_accounts = MergedAccounts(input, num_senders)
    /\ main_pc = "panicked" => dispatch_result \in {"ReadErr", "ClientErr"}

\* A run with batch size 2 has exported after a lane received a full batch
\* and then a partial one.
C5_Witness ==
    /\ main_pc = "done"
    /\ batch_size = 2
    /\ \E i \in Lanes : Len(delivered[i]) = 3
    /\ final_accounts # EmptyMap

Count(seq, r) == Cardinality({k \in 1..Len(seq) : seq[k] = r})

\* C6 as stated: once the threads have ended (and the reader itself did not
\* fail), every input record with client id c has been delivered exactly
\* once, to lane c mod N and to no other lane.
C6_DeliveredExactlyOnce ==
    (AllTerminated /\ dispatch_result # "ReadErr") =>
        \A k \in 1..Len(input) :
            input[k].client # None =>
                \A i \in Lanes :
                    Count(delivered[i], input[k]) =
                        IF i = input[k].client[1] % num_senders
                        THEN Count(input, input[k]) ELSE 0

\* C7 as stated: once the threads have ended (and the reader itself did not
\* fail), the records of client c that c's lane has taken are the records of
\* c in the input, in input order.
C7_PerClientOrder ==
    (AllTerminated /\ dispatch_result # "ReadErr") =>
        \A c \in ClientId :
            SelectSeq(delivered[c % num_senders], LAMBDA r : r.client = Some(c))
                = SelectSeq(input, LAMBDA r : r.client = Some(c))

RECURSIVE Flatten(_)
\* The records of a queue of batches, in order.
Flatten(queue) == IF queue = << >> THEN << >> ELSE Head(queue) \o Flatten(Tail(queue))

\* Supporting invariant: while the dispatcher has not failed, the records it
\* has read for lane i are, in input order, those the worker has taken, then
\* those in the lane's channel, then those in the lane's partial batch; in a
\* run in which it failed, the worker has taken a prefix of them.
LaneConservation ==
    \A i \in Lanes :
        LET routed == LaneInput(input, num_senders, i)
            taken == delivered[i]
        IN  /\ Len(taken) <= Len(routed)
            /\ taken = SubSeq(routed, 1, Len(taken))
            /\ dispatch_result \in {"running", "Ok"} =>
                   taken \o Flatten(chan[i]) \o batches[i] = routed
            /\ (dispatch_result = "Ok" /\ worker_pc[i] = "done") => taken = routed

\* C8: the key sets of any two lanes' account maps are disjoint, lane i holds
\* accounts only for clients c with c mod N = i, and no lane map that main
\* has still to merge shares a key with final_accounts.
C8_LaneKeysDisjoint ==
    /\ \A i, j \in Lanes :
           i # j => DOMAIN engines[i].accounts \cap DOMAIN engines[j].accounts = {}
    /\ \A i \in Lanes : \A c \in DOMAIN engines[i].accounts : c % num_senders = i
    /\ \A i \in Lanes :
           i >= main_i => DOMAIN final_accounts \cap DOMAIN engines[i].accounts = {}

\* Two lanes both hold an account and main has merged both maps.
C8_Witness ==
    /\ num_senders = 2
    /\ main_i = 2
    /\ \A i \in Lanes : engines[i].accounts # EmptyMap
    /\ Cardinality(DOMAIN final_accounts) = 2

\* C9 as stated: main takes a lane's account map only after every lane has
\* terminated, and exports only after all lanes and the dispatcher have.
C9_MergeAfterAllLanes ==
    /\ main_i > 0 => \A i \in Lanes : worker_pc[i] = "done"
    /\ main_pc \in {"export", "done"} => AllTerminated

RECURSIVE MergedLanes(_)
\* The account maps the workers of lanes 0..k-1 hold, merged in lane order.
MergedLanes(k) ==
    IF k = 0 THEN EmptyMap ELSE extend(MergedLanes(k - 1), engines[k - 1].accounts)

\* C9 amended: main takes the account map of lane i only after lane i has
\* terminated, lane by lane in lane order (other lanes may still be running),
\* and exports only after all lanes and the dispatcher have terminated.
C9_MergeAfterOwnLane ==
    /\ main_i \in 0..num_senders
    /\ \A i \in Lanes : i < main_i => worker_pc[i] = "done"
    /\ final_accounts = MergedLanes(main_i)
    /\ main_pc \in {"export", "done"} => AllTerminated /\ main_i = num_senders

\* main has merged the map of lane 0 while lane 1 is still running.
C9_Witness ==
    /\ num_senders = 2
    /\ main_i = 1
    /\ worker_pc[1] = "recv"
    /\ final_accounts # EmptyMap

\* C10: the output has exactly one row per client present in some lane's
\* account map, in strictly ascending client id order, and each row carries
\* the account's available, held and locked, and total = available + held.
C10_ExportRows ==
    main_pc = "done" =>
        /\ {output[k].id : k \in 1..Len(output)}
               = UNION {DOMAIN engines[i].accounts : i \in Lanes}
        /\ \A k \in 1..(Len(output) - 1) : output[k].id < output[k + 1].id
        /\ \A k \in 1..Len(output) :
               LET account == engines[output[k].id % num_senders].accounts[output[k].id]
               IN  /\ output[k].available = account.available
                   /\ output[k].held = account.held
                   /\ output[k].locked = account.locked
                   /\ output[k].total = account.available + account.held

\* Two rows were exported, one of an account with held funds.
C10_Witness ==
    /\ main_pc = "done"
    /\ Len(output) = 2
    /\ \E k \in 1..Len(output) : output[k].held > 0

\* A row parses against the schema: a type token of the five, numeric
\* client and tx ids, an amount that is numeric or empty.
Parses(r) ==
    /\ r.type \in TransactionType
    /\ r.client # None
    /\ r.tx # None
    /\ r.amount # None

\* The engine of lane i had the rows of the input that do not parse been
\* absent from the file.
LaneOfParsed(i) ==
    process_batch(PaymentEngine_new,
                  SelectSeq(input, LAMBDA r : Parses(r) /\ r.client[1] % num_senders = i))

\* C19 as stated: no row that fails to parse stops the dispatcher (it ends
\* only at the end of the input or on a read error), and once the threads
\* have ended without a read error the export happens and every lane holds
\* what the rows that parse, applied in input order, produce: a row that
\* does not parse has no effect and the rows around it are processed.
C19_MalformedDropped ==
    /\ dispatch_result # "ClientErr"
    /\ (AllTerminated /\ dispatch_result # "ReadErr") =>
           /\ \A i \in Lanes : engines[i] = LaneOfParsed(i)
           /\ main_pc \notin {"failed", "panicked"}

\* A fatal error has occurred: main returned an error before spawning the
\* threads (wrong argument count, input file missing), or the reader failed
\* while the dispatcher was reading (the file missing or unreadable by then).
FatalError == main_pc = "failed" \/ dispatch_result = "ReadErr"

\* C20: in a run with a fatal error no output row is ever written: the
\* export step is not reached, before or after the error.
C20_NoExportAfterFatal ==
    FatalError => output = << >> /\ main_pc \notin {"export", "done"}

\* The reader failed after rows were read and applied; main has joined the
\* workers, holds their accounts and has panicked on the dispatcher's join.
C20_Witness ==
    /\ dispatch_result = "ReadErr"
    /\ main_pc = "panicked"
    /\ final_accounts # EmptyMap
    /\ output = << >>

RECURSIVE Transactions(_)
\* The transactions a csv reader deserializes from the rows, in order; a row
\* that does not deserialize yields none.
Transactions(rows) ==
    IF rows = << >> THEN << >>
    ELSE deserialize(Head(rows)) \o Transactions(Tail(rows))

\* The accounts of one PaymentEngine that applies the whole input in order.
SequentialAccounts == process_transactions(PaymentEngine_new, Transactions(input)).accounts

\* Every deposit and withdrawal of the input carries a tx id of its own.
DistinctTxIds ==
    \A j, k \in 1..Len(input) :
        (/\ j # k
         /\ input[j].type \in {"deposit", "withdrawal"}
         /\ input[k].type \in {"deposit", "withdrawal"})
        => input[j].tx # input[k].tx

\* C22: a run (of any lane count and batch size) whose input has numeric
\* client ids throughout and a distinct tx id on every deposit and withdrawal
\* exports the accounts one PaymentEngine produces by applying the whole
\* input in order.
C22_PipelineIsSequential ==
    (/\ main_pc = "done"
     /\ DistinctTxIds
     /\ \A k \in 1..Len(input) : input[k].client # None)
    => final_accounts = SequentialAccounts

\* A run of two lanes has exported: each lane applied a deposit, and one
\* client disputed, in vain, the deposit of the other.
C22_Witness ==
    /\ main_pc = "done"
    /\ num_senders = 2
    /\ DistinctTxIds
    /\ Len(input) = 3
    /\ \A i \in Lanes : engines[i].transactions # EmptyMap
    /\ input[3].type = "dispute"
    /\ \A c \in DOMAIN final_accounts : final_accounts[c].held = 0

(* ---------------------------------------------------------------------- *)
(* Claims about the pipeline under fair scheduling (FairSpec)               *)
(* ---------------------------------------------------------------------- *)

DispatcherFailed == dispatch_result \in {"ReadErr", "ClientErr"}

Exported ==
    /\ main_pc = "done"
    /\ AllTerminated
    /\ \A i \in Lanes : sender_dropped[i] /\ chan[i] = << >> /\ batches[i] = << >>
    /\ main_i = num_senders

\* C11: once the threads are spawned, in every fair run whose input is finite
\* and well formed (the dispatcher meets no read error and no unparsable
\* client id) the dispatcher eventually exhausts the input and closes every
\* lane's channel, every lane drains its queue and returns, main joins them
\* all and the export happens.
C11_EventuallyExported == (main_pc = "join") ~> (DispatcherFailed \/ Exported)

\* A run of two lanes has exported after both lanes took a record.
C11_Witness ==
    /\ Exported
    /\ num_senders = 2
    /\ \A i \in Lanes : delivered[i] # << >>
    /\ output # << >>

\* Every lane's channel is closed and drained, every worker has returned
\* and main is past all its joins.
JoinsDone ==
    /\ AllTerminated
    /\ \A i \in Lanes : sender_dropped[i] /\ chan[i] = << >>
    /\ main_i = num_senders
    /\ main_pc \in {"panicked", "export", "done"}

\* C27: when the dispatcher fails part-way through the input (read error or
\* unparsable client id), every lane's channel is still closed, every worker
\* still returns, and main's joins of the workers and of the dispatcher
\* return: main ends in the panic of the unwrap, it does not hang.
C27_FailureStillTerminates ==
    DispatcherFailed ~> (JoinsDone /\ main_pc = "panicked")

\* The dispatcher failed on a client id after a lane had taken a batch; the
\* workers have returned and main has panicked on the dispatcher's join.
C27_Witness ==
    /\ dispatch_result = "ClientErr"
    /\ JoinsDone
    /\ main_pc = "panicked"
    /\ num_senders = 2
    /\ \E i \in Lanes : delivered[i] # << >>

====
